---- MODULE Spec2Model ----
(***************************************************************************)
(* Model of the cubeworld game client driver (GameClient::run and          *)
(* GameClient::runMainGameLoop) and of the axis-permuted Point.            *)
(*                                                                         *)
(* Time values are counted in ticks of 1/TicksPerSecond seconds.  Every    *)
(* step of run() and of the main loop is one action; pc is the position of *)
(* the single thread of control.  The overridable hooks are the            *)
(* environment: their boolean results, the window's quit signal and the    *)
(* values returned by App::currentTime() are chosen nondeterministically.  *)
(***************************************************************************)
EXTENDS Integers, Sequences, FiniteSets, TLC

\* ---- bounds of the model ------------------------------------------------
\* number of main loop iterations after which the window reports quit
MaxFrames == 3

\* ---- time representation ------------------------------------------------
\* resolution of a Time value: ticks per second (one tick = 10ms)
TicksPerSecond == 100

\* Time(0.25): the largest frame time the loop accepts
MaxFrameTime == TicksPerSecond \div 4

\* mUpdateFrequency( 1.0f / 50.0f )
DefaultUpdateFrequency == TicksPerSecond \div 50

\* mMaximumSleepSkew( 0.01f )
DefaultMaximumSleepSkew == TicksPerSecond \div 100

\* ---- inputs -------------------------------------------------------------
NULL == "NULL"

\* objects a caller can pass to the constructor (both asserted non-null)
Windows == {"window"}
Renderers == {"rendererA"}

\* values App::currentTime() can have when the client starts
StartTimes == {0, 40}

\* amounts by which App::currentTime() can differ between two reads; the
\* time source is not known to be monotonic, so one step goes backwards
ClockSteps == {-2, 0, 1, 2, 5, 25, 30}

\* arguments a caller passes to setUpdateFrequency
UpdateRates == {-50, 0, 10, 20, 50, 100}

VARIABLES
    pc,                 \* position of the thread of control
    pMainWindow,        \* constructor argument
    pRenderer,          \* constructor argument
    mpMainWindow,
    mpRenderer,
    mIsGameRunning,
    mIsRunningSlowly,
    mUpdateFrequency,
    mMaximumSleepSkew,
    simulationTime,
    accumulatedTime,
    systemTime,
    frameTime,
    numUpdates,
    interpolation,      \* [num, den]: the ratio num/den
    clock,              \* last value returned by App::currentTime()
    userQuit,           \* what mpMainWindow->didUserQuit() reports
    calls,              \* number of calls made to each hook / collaborator
    lastUpdate,         \* arguments of the last update() call
    lastDraw,           \* arguments of the last draw() call, and the flag then
    presentTarget,      \* object the last present() was issued on
    rawFrameTime,       \* frame time of this frame before clamping
    totalFrameTime,     \* sum of the raw frame times polled in this run
    totalClamped,       \* sum of the frame times after clamping
    clampTriggered,     \* some frame time of this run exceeded MaxFrameTime
    clockWentBack,      \* some frame time of this run was negative
    frames,             \* completed iterations of the main loop
    loopResult,         \* value returned by runMainGameLoop()
    loopEntered,        \* runMainGameLoop() has been called
    hookFailed,         \* the startup hook that returned false, if any
    point,              \* the Point under construction: its arguments and storage v
    requestedRate,      \* argument of the last setUpdateFrequency call
    expected,           \* simulation state that the frame times polled so far call for
    result              \* value returned by run()

vars == << pc, pMainWindow, pRenderer, mpMainWindow, mpRenderer,
           mIsGameRunning, mIsRunningSlowly, mUpdateFrequency,
           mMaximumSleepSkew, simulationTime, accumulatedTime, systemTime,
           frameTime, numUpdates, interpolation, clock, userQuit, calls,
           lastUpdate, lastDraw, presentTarget, rawFrameTime, totalFrameTime,
           totalClamped, clampTriggered, clockWentBack, frames, loopResult,
           loopEntered, hookFailed, result, point, requestedRate, expected >>

loopVars == << simulationTime, accumulatedTime, systemTime, frameTime,
               numUpdates, interpolation, rawFrameTime, totalFrameTime,
               totalClamped, clampTriggered, clockWentBack >>

memberVars == << pMainWindow, pRenderer, mpMainWindow, mpRenderer,
                 mUpdateFrequency, mMaximumSleepSkew >>

Hooks == {"show", "initializeClient", "initialize", "loadContent",
          "unloadContent", "processMessages", "update", "draw", "present",
          "sleep"}

Called(h) == [calls EXCEPT ![h] = @ + 1]

\* ---- GameClient::GameClient ---------------------------------------------
Init ==
    /\ pc = "constructed"
    /\ pMainWindow \in Windows
    /\ pRenderer \in Renderers
    /\ mpMainWindow = pMainWindow
    /\ mpRenderer = NULL
    /\ mIsGameRunning = FALSE
    /\ mIsRunningSlowly = FALSE
    /\ mUpdateFrequency = DefaultUpdateFrequency
    /\ mMaximumSleepSkew = DefaultMaximumSleepSkew
    /\ simulationTime = 0
    /\ accumulatedTime = 0
    /\ systemTime = 0
    /\ frameTime = 0
    /\ numUpdates = 0
    /\ interpolation = [num |-> 0, den |-> 1]
    /\ clock \in StartTimes
    /\ userQuit = FALSE
    /\ calls = [h \in Hooks |-> 0]
    /\ lastUpdate = [simulationTime |-> 0, deltaTime |-> 0]
    /\ lastDraw = [simulationTime |-> 0, interpolation |-> [num |-> 0, den |-> 1],
                   runningSlowly |-> FALSE, numUpdates |-> 0]
    /\ presentTarget = NULL
    /\ rawFrameTime = 0
    /\ totalFrameTime = 0
    /\ totalClamped = 0
    /\ clampTriggered = FALSE
    /\ clockWentBack = FALSE
    /\ frames = 0
    /\ loopResult = "none"
    /\ loopEntered = FALSE
    /\ hookFailed = "none"
    /\ result = "none"
    /\ expected = [simulationTime |-> 0, accumulatedTime |-> 0, updates |-> 0]
    /\ requestedRate = [called |-> FALSE, n |-> 0]
    /\ point = [state |-> "none", axis |-> 0, a |-> 0, b |-> 0, c |-> 0, v |-> [i \in 0..2 |-> 0]]

\* ---- GameClient::setUpdateFrequency -------------------------------------
\* variant: the rate itself is stored as the period
setUpdateFrequencyNoReciprocal(numUpdatesPerSecond) ==
    /\ pc = "constructed"
    /\ requestedRate' = [called |-> TRUE, n |-> numUpdatesPerSecond]
    /\ IF numUpdatesPerSecond > 0
       THEN /\ mUpdateFrequency' = numUpdatesPerSecond
            /\ pc' = pc
       ELSE /\ mUpdateFrequency' = mUpdateFrequency
            /\ pc' = "assertFailed"
    /\ UNCHANGED << pMainWindow, pRenderer, mpMainWindow, mpRenderer,
                    mMaximumSleepSkew, mIsGameRunning, mIsRunningSlowly,
                    clock, userQuit, calls, lastUpdate, lastDraw,
                    presentTarget, frames, loopResult, result >>
    /\ UNCHANGED loopVars
    /\ UNCHANGED << loopEntered, hookFailed, point, expected >>

\* assert( numUpdatesPerSecond > 0 ) stops the program; otherwise the period
\* becomes 1/n seconds
setUpdateFrequency(numUpdatesPerSecond) ==
    /\ pc = "constructed"
    /\ requestedRate' = [called |-> TRUE, n |-> numUpdatesPerSecond]
    /\ IF numUpdatesPerSecond > 0
       THEN /\ mUpdateFrequency' = TicksPerSecond \div numUpdatesPerSecond
            /\ pc' = pc
       ELSE /\ mUpdateFrequency' = mUpdateFrequency
            /\ pc' = "assertFailed"
    /\ UNCHANGED << pMainWindow, pRenderer, mpMainWindow, mpRenderer,
                    mMaximumSleepSkew, mIsGameRunning, mIsRunningSlowly,
                    clock, userQuit, calls, lastUpdate, lastDraw,
                    presentTarget, frames, loopResult, result >>
    /\ UNCHANGED loopVars
    /\ UNCHANGED << loopEntered, hookFailed, point, expected >>

\* ---- GameClient::run ----------------------------------------------------
\* mpMainWindow->show()
runShow ==
    /\ pc = "constructed"
    /\ calls' = Called("show")
    /\ pc' = "initializeClient"
    /\ UNCHANGED << mIsGameRunning, mIsRunningSlowly, clock, userQuit,
                    lastUpdate, lastDraw, presentTarget, frames, loopResult,
                    result >>
    /\ UNCHANGED memberVars
    /\ UNCHANGED << loopEntered, hookFailed, point, requestedRate, expected >>
    /\ UNCHANGED loopVars

\* variant: both hooks are called before either result is looked at
runInitializeClientNoShortCircuit ==
    /\ pc = "initializeClient"
    /\ \E ok \in BOOLEAN :
          /\ calls' = Called("initializeClient")
          /\ pc' = "initialize"
          /\ result' = result
          /\ hookFailed' = IF ok THEN hookFailed ELSE "initializeClient"
    /\ UNCHANGED << loopEntered, point, requestedRate, expected >>
    /\ UNCHANGED << mIsGameRunning, mIsRunningSlowly, clock, userQuit,
                    lastUpdate, lastDraw, presentTarget, frames, loopResult >>
    /\ UNCHANGED memberVars
    /\ UNCHANGED loopVars

\* initializeClient() == false || ... : the hook's result is ok
runInitializeClient ==
    /\ pc = "initializeClient"
    /\ \E ok \in BOOLEAN :
          /\ calls' = Called("initializeClient")
          /\ IF ok
             THEN pc' = "initialize" /\ result' = result /\ hookFailed' = hookFailed
             ELSE /\ pc' = "returned"
                  /\ result' = "EPROGRAM_FATAL_ERROR"
                  /\ hookFailed' = "initializeClient"
    /\ UNCHANGED << loopEntered, point, requestedRate, expected >>
    /\ UNCHANGED << mIsGameRunning, mIsRunningSlowly, clock, userQuit,
                    lastUpdate, lastDraw, presentTarget, frames, loopResult >>
    /\ UNCHANGED memberVars
    /\ UNCHANGED loopVars

\* variant: the result of initialize() is reported but startup goes on
runInitializeIgnored ==
    /\ pc = "initialize"
    /\ \E ok \in BOOLEAN :
          /\ calls' = Called("initialize")
          /\ pc' = "loadContent"
          /\ result' = result
          /\ hookFailed' = IF ok THEN hookFailed ELSE "initialize"
    /\ UNCHANGED << loopEntered, point, requestedRate, expected >>
    /\ UNCHANGED << mIsGameRunning, mIsRunningSlowly, clock, userQuit,
                    lastUpdate, lastDraw, presentTarget, frames, loopResult >>
    /\ UNCHANGED memberVars
    /\ UNCHANGED loopVars

\* ... || initialize() == false
runInitialize ==
    /\ pc = "initialize"
    /\ \E ok \in BOOLEAN :
          /\ calls' = Called("initialize")
          /\ IF ok
             THEN pc' = "loadContent" /\ result' = result /\ hookFailed' = hookFailed
             ELSE /\ pc' = "returned"
                  /\ result' = "EPROGRAM_FATAL_ERROR"
                  /\ hookFailed' = "initialize"
    /\ UNCHANGED << loopEntered, point, requestedRate, expected >>
    /\ UNCHANGED << mIsGameRunning, mIsRunningSlowly, clock, userQuit,
                    lastUpdate, lastDraw, presentTarget, frames, loopResult >>
    /\ UNCHANGED memberVars
    /\ UNCHANGED loopVars

\* variant: the result of loadContent() is reported but the game is entered
runLoadContentIgnored ==
    /\ pc = "loadContent"
    /\ \E ok \in BOOLEAN :
          /\ calls' = Called("loadContent")
          /\ pc' = "runMainGameLoop"
          /\ result' = result
          /\ hookFailed' = IF ok THEN hookFailed ELSE "loadContent"
    /\ UNCHANGED << loopEntered, point, requestedRate, expected >>
    /\ UNCHANGED << mIsGameRunning, mIsRunningSlowly, clock, userQuit,
                    lastUpdate, lastDraw, presentTarget, frames, loopResult >>
    /\ UNCHANGED memberVars
    /\ UNCHANGED loopVars

\* if (! loadContent() ) return App::EPROGRAM_FATAL_ERROR
runLoadContent ==
    /\ pc = "loadContent"
    /\ \E ok \in BOOLEAN :
          /\ calls' = Called("loadContent")
          /\ IF ok
             THEN pc' = "runMainGameLoop" /\ result' = result /\ hookFailed' = hookFailed
             ELSE /\ pc' = "returned"
                  /\ result' = "EPROGRAM_FATAL_ERROR"
                  /\ hookFailed' = "loadContent"
    /\ UNCHANGED << loopEntered, point, requestedRate, expected >>
    /\ UNCHANGED << mIsGameRunning, mIsRunningSlowly, clock, userQuit,
                    lastUpdate, lastDraw, presentTarget, frames, loopResult >>
    /\ UNCHANGED memberVars
    /\ UNCHANGED loopVars

\* variant: run() returns without unloading
runUnloadContentSkipped ==
    /\ pc = "unloadContent"
    /\ calls' = calls
    /\ result' = "EPROGRAM_OK"
    /\ pc' = "returned"
    /\ UNCHANGED << mIsGameRunning, mIsRunningSlowly, clock, userQuit,
                    lastUpdate, lastDraw, presentTarget, frames, loopResult >>
    /\ UNCHANGED memberVars
    /\ UNCHANGED loopVars
    /\ UNCHANGED << loopEntered, hookFailed, point, requestedRate, expected >>

\* unloadContent(); return App::EPROGRAM_OK
runUnloadContent ==
    /\ pc = "unloadContent"
    /\ calls' = Called("unloadContent")
    /\ result' = "EPROGRAM_OK"
    /\ pc' = "returned"
    /\ UNCHANGED << mIsGameRunning, mIsRunningSlowly, clock, userQuit,
                    lastUpdate, lastDraw, presentTarget, frames, loopResult >>
    /\ UNCHANGED memberVars
    /\ UNCHANGED << loopEntered, hookFailed, point, requestedRate, expected >>
    /\ UNCHANGED loopVars

\* ---- GameClient::runMainGameLoop ----------------------------------------
\* variant: the frame time is clamped at twice the limit
clampFrameTimeLate(t) == IF t > 2 * MaxFrameTime THEN 2 * MaxFrameTime ELSE t

\* variant: the frame time is never clamped
clampFrameTimeOff(t) == t

\* if ( frameTime > Time(0.25) ) frameTime = Time(0.25)
clampFrameTime(t) == IF t > MaxFrameTime THEN MaxFrameTime ELSE t

\* variant: the flag is raised one step too late
runningSlowlyLate(n) == n > 1

\* mIsRunningSlowly = ( numUpdates > 0 )
runningSlowly(n) == n > 0

\* variant: the ratio is not subtracted from one
computeInterpolationRaw(accumulated, period) ==
    [num |-> accumulated, den |-> period]

\* 1.0f - ( accumulatedTime.toDouble() / mUpdateFrequency.toDouble() ), kept
\* as the exact ratio (period - accumulated) / period
computeInterpolation(accumulated, period) ==
    [num |-> period - accumulated, den |-> period]

\* accumulatedTime + mMaximumSleepSkew < mUpdateFrequency
canSleep(accumulated, skew, period) == accumulated + skew < period

\* entry of the loop: the running flag is set and time tracking starts
loopEnter ==
    /\ pc = "runMainGameLoop"
    /\ mIsGameRunning' = TRUE
    /\ loopEntered' = TRUE
    /\ expected' = [simulationTime |-> 0, accumulatedTime |-> 0, updates |-> 0]
    /\ UNCHANGED << hookFailed, point, requestedRate >>
    /\ simulationTime' = 0
    /\ accumulatedTime' = 0
    /\ \E d \in ClockSteps :
          /\ clock' = clock + d
          /\ systemTime' = clock'
    /\ pc' = "loopCond"
    /\ UNCHANGED << mIsRunningSlowly, userQuit, calls, lastUpdate, lastDraw,
                    presentTarget, frames, loopResult, result, frameTime,
                    numUpdates, interpolation, rawFrameTime, totalFrameTime,
                    totalClamped, clampTriggered, clockWentBack >>
    /\ UNCHANGED memberVars

\* while ( mIsGameRunning && (!mpMainWindow->didUserQuit()) )
loopCond ==
    /\ pc = "loopCond"
    /\ IF mIsGameRunning /\ ~userQuit
       THEN pc' = "processMessages" /\ loopResult' = loopResult
       ELSE pc' = "unloadContent" /\ loopResult' = "EPROGRAM_OK"
    /\ UNCHANGED << mIsGameRunning, mIsRunningSlowly, clock, userQuit, calls,
                    lastUpdate, lastDraw, presentTarget, frames, result >>
    /\ UNCHANGED memberVars
    /\ UNCHANGED << loopEntered, hookFailed, point, requestedRate, expected >>
    /\ UNCHANGED loopVars

\* mpMainWindow->processMessages(): the window learns whether the user quit;
\* the user quits at the latest in frame MaxFrames
loopProcessMessages ==
    /\ pc = "processMessages"
    /\ calls' = Called("processMessages")
    /\ \E q \in BOOLEAN :
          /\ (frames + 1 >= MaxFrames) => q
          /\ userQuit' = q
    /\ pc' = "poll"
    /\ UNCHANGED << mIsGameRunning, mIsRunningSlowly, clock, lastUpdate,
                    lastDraw, presentTarget, frames, loopResult, result >>
    /\ UNCHANGED memberVars
    /\ UNCHANGED << loopEntered, hookFailed, point, requestedRate, expected >>
    /\ UNCHANGED loopVars

\* what a fixed timestep makes of one more frame time: the state e after the
\* frames so far, advanced by every whole period that fits into the
\* accumulated time; it depends on the frame times and the period only
FixedTimestep(e, t, period) ==
    LET accumulated == e.accumulatedTime + t
        n == IF accumulated >= period THEN accumulated \div period ELSE 0
    IN  [simulationTime |-> e.simulationTime + n * period,
         accumulatedTime |-> accumulated - n * period,
         updates |-> e.updates + n]

\* newTime = App::currentTime(); frameTime = newTime - systemTime;
\* systemTime = newTime; clamp of frameTime
loopPoll ==
    /\ pc = "poll"
    /\ \E d \in ClockSteps :
          /\ clock' = clock + d
          /\ rawFrameTime' = clock' - systemTime
          /\ systemTime' = clock'
    /\ frameTime' = clampFrameTime(rawFrameTime')
    /\ totalFrameTime' = totalFrameTime + rawFrameTime'
    /\ totalClamped' = totalClamped + frameTime'
    /\ expected' = FixedTimestep(expected, frameTime', mUpdateFrequency)
    /\ clampTriggered' = (clampTriggered \/ rawFrameTime' > MaxFrameTime)
    /\ clockWentBack' = (clockWentBack \/ rawFrameTime' < 0)
    /\ pc' = "accumulate"
    /\ UNCHANGED << mIsGameRunning, mIsRunningSlowly, userQuit, calls,
                    lastUpdate, lastDraw, presentTarget, frames, loopResult,
                    result, simulationTime, accumulatedTime, numUpdates,
                    interpolation >>
    /\ UNCHANGED memberVars
    /\ UNCHANGED << loopEntered, hookFailed, point, requestedRate >>

\* variant: the running slowly flag is cleared at the start of every frame
loopAccumulateClearsFlag ==
    /\ pc = "accumulate"
    /\ numUpdates' = 0
    /\ mIsRunningSlowly' = FALSE
    /\ accumulatedTime' = accumulatedTime + frameTime
    /\ pc' = "drain"
    /\ UNCHANGED << mIsGameRunning, clock, userQuit, calls,
                    lastUpdate, lastDraw, presentTarget, frames, loopResult,
                    result, simulationTime, systemTime, frameTime,
                    interpolation, rawFrameTime, totalFrameTime, totalClamped,
                    clampTriggered, clockWentBack >>
    /\ UNCHANGED memberVars
    /\ UNCHANGED << loopEntered, hookFailed, point, requestedRate, expected >>

\* variant: the frame time is accumulated as polled, before the clamp
loopAccumulateRaw ==
    /\ pc = "accumulate"
    /\ numUpdates' = 0
    /\ accumulatedTime' = accumulatedTime + rawFrameTime
    /\ pc' = "drain"
    /\ UNCHANGED << mIsGameRunning, mIsRunningSlowly, clock, userQuit, calls,
                    lastUpdate, lastDraw, presentTarget, frames, loopResult,
                    result, simulationTime, systemTime, frameTime,
                    interpolation, rawFrameTime, totalFrameTime, totalClamped,
                    clampTriggered, clockWentBack >>
    /\ UNCHANGED memberVars
    /\ UNCHANGED << loopEntered, hookFailed, point, requestedRate, expected >>

\* variant: the remainder of the previous frame is dropped
loopAccumulateNoCarry ==
    /\ pc = "accumulate"
    /\ numUpdates' = 0
    /\ accumulatedTime' = frameTime
    /\ pc' = "drain"
    /\ UNCHANGED << mIsGameRunning, mIsRunningSlowly, clock, userQuit, calls,
                    lastUpdate, lastDraw, presentTarget, frames, loopResult,
                    result, simulationTime, systemTime, frameTime,
                    interpolation, rawFrameTime, totalFrameTime, totalClamped,
                    clampTriggered, clockWentBack >>
    /\ UNCHANGED memberVars
    /\ UNCHANGED << loopEntered, hookFailed, point, requestedRate, expected >>

\* numUpdates = 0; accumulatedTime += frameTime
loopAccumulate ==
    /\ pc = "accumulate"
    /\ numUpdates' = 0
    /\ accumulatedTime' = accumulatedTime + frameTime
    /\ pc' = "drain"
    /\ UNCHANGED << mIsGameRunning, mIsRunningSlowly, clock, userQuit, calls,
                    lastUpdate, lastDraw, presentTarget, frames, loopResult,
                    result, simulationTime, systemTime, frameTime,
                    interpolation, rawFrameTime, totalFrameTime, totalClamped,
                    clampTriggered, clockWentBack >>
    /\ UNCHANGED memberVars
    /\ UNCHANGED << loopEntered, hookFailed, point, requestedRate, expected >>

\* variant: a variable timestep, simulation time advances by the frame time
loopUpdateVariableStep ==
    /\ pc = "drain"
    /\ accumulatedTime >= mUpdateFrequency
    /\ mIsRunningSlowly' = runningSlowly(numUpdates)
    /\ calls' = Called("update")
    /\ lastUpdate' = [simulationTime |-> simulationTime,
                      deltaTime |-> mUpdateFrequency]
    /\ \E stop \in BOOLEAN : mIsGameRunning' = (mIsGameRunning /\ ~stop)
    /\ numUpdates' = numUpdates + 1
    /\ simulationTime' = simulationTime + frameTime
    /\ accumulatedTime' = accumulatedTime - mUpdateFrequency
    /\ pc' = "drain"
    /\ UNCHANGED << clock, userQuit, lastDraw, presentTarget, frames,
                    loopResult, result, systemTime, frameTime, interpolation,
                    rawFrameTime, totalFrameTime, totalClamped,
                    clampTriggered, clockWentBack >>
    /\ UNCHANGED memberVars
    /\ UNCHANGED << loopEntered, hookFailed, point, requestedRate, expected >>

\* one pass of while ( accumulatedTime >= mUpdateFrequency ); the update()
\* hook is overridable and can ask the game to stop
loopUpdate ==
    /\ pc = "drain"
    /\ accumulatedTime >= mUpdateFrequency
    /\ mIsRunningSlowly' = runningSlowly(numUpdates)
    /\ calls' = Called("update")
    /\ lastUpdate' = [simulationTime |-> simulationTime,
                      deltaTime |-> mUpdateFrequency]
    /\ \E stop \in BOOLEAN : mIsGameRunning' = (mIsGameRunning /\ ~stop)
    /\ numUpdates' = numUpdates + 1
    /\ simulationTime' = simulationTime + mUpdateFrequency
    /\ accumulatedTime' = accumulatedTime - mUpdateFrequency
    /\ pc' = "drain"
    /\ UNCHANGED << clock, userQuit, lastDraw, presentTarget, frames,
                    loopResult, result, systemTime, frameTime, interpolation,
                    rawFrameTime, totalFrameTime, totalClamped,
                    clampTriggered, clockWentBack >>
    /\ UNCHANGED memberVars
    /\ UNCHANGED << loopEntered, hookFailed, point, requestedRate, expected >>

\* variant: the drain loop is left while a whole period is still accumulated
loopInterpolateEarly ==
    /\ pc = "drain"
    /\ ~(accumulatedTime > mUpdateFrequency)
    /\ interpolation' = computeInterpolation(accumulatedTime, mUpdateFrequency)
    /\ pc' = "draw"
    /\ UNCHANGED << mIsGameRunning, mIsRunningSlowly, clock, userQuit, calls,
                    lastUpdate, lastDraw, presentTarget, frames, loopResult,
                    result, simulationTime, accumulatedTime, systemTime,
                    frameTime, numUpdates, rawFrameTime, totalFrameTime,
                    totalClamped, clampTriggered, clockWentBack >>
    /\ UNCHANGED memberVars
    /\ UNCHANGED << loopEntered, hookFailed, point, requestedRate, expected >>

\* the drain loop ends and the interpolation is computed
loopInterpolate ==
    /\ pc = "drain"
    /\ ~(accumulatedTime >= mUpdateFrequency)
    /\ interpolation' = computeInterpolation(accumulatedTime, mUpdateFrequency)
    /\ pc' = "draw"
    /\ UNCHANGED << mIsGameRunning, mIsRunningSlowly, clock, userQuit, calls,
                    lastUpdate, lastDraw, presentTarget, frames, loopResult,
                    result, simulationTime, accumulatedTime, systemTime,
                    frameTime, numUpdates, rawFrameTime, totalFrameTime,
                    totalClamped, clampTriggered, clockWentBack >>
    /\ UNCHANGED memberVars
    /\ UNCHANGED << loopEntered, hookFailed, point, requestedRate, expected >>

\* variant: the frame is drawn inside the drain loop
loopDrawInsideDrain ==
    /\ pc = "draw"
    /\ calls' = Called("draw")
    /\ lastDraw' = [simulationTime |-> simulationTime,
                    interpolation |-> interpolation,
                    runningSlowly |-> mIsRunningSlowly,
                    numUpdates |-> numUpdates]
    /\ \E stop \in BOOLEAN : mIsGameRunning' = (mIsGameRunning /\ ~stop)
    /\ pc' = IF numUpdates < 2 THEN "drain" ELSE "present"
    /\ accumulatedTime' = IF numUpdates < 2
                          THEN accumulatedTime + mUpdateFrequency
                          ELSE accumulatedTime
    /\ UNCHANGED << mIsRunningSlowly, clock, userQuit, lastUpdate,
                    presentTarget, frames, loopResult, result >>
    /\ UNCHANGED memberVars
    /\ UNCHANGED << simulationTime, systemTime, frameTime, numUpdates,
                    interpolation, rawFrameTime, totalFrameTime, totalClamped,
                    clampTriggered, clockWentBack >>
    /\ UNCHANGED << loopEntered, hookFailed, point, requestedRate, expected >>

\* draw( simulationTime, interpolation ); the hook is overridable and can ask
\* the game to stop
loopDraw ==
    /\ pc = "draw"
    /\ calls' = Called("draw")
    /\ lastDraw' = [simulationTime |-> simulationTime,
                    interpolation |-> interpolation,
                    runningSlowly |-> mIsRunningSlowly,
                    numUpdates |-> numUpdates]
    /\ \E stop \in BOOLEAN : mIsGameRunning' = (mIsGameRunning /\ ~stop)
    /\ pc' = "present"
    /\ UNCHANGED << mIsRunningSlowly, clock, userQuit, lastUpdate,
                    presentTarget, frames, loopResult, result >>
    /\ UNCHANGED memberVars
    /\ UNCHANGED << loopEntered, hookFailed, point, requestedRate, expected >>
    /\ UNCHANGED loopVars

\* mpRenderer->present(): a call through a null pointer is undefined, the
\* program either stops there or carries on
loopPresent ==
    /\ pc = "present"
    /\ calls' = Called("present")
    /\ presentTarget' = mpRenderer
    /\ IF mpRenderer = NULL
       THEN \E outcome \in {"crashed", "sleep"} : pc' = outcome
       ELSE pc' = "sleep"
    /\ UNCHANGED << mIsGameRunning, mIsRunningSlowly, clock, userQuit,
                    lastUpdate, lastDraw, frames, loopResult, result >>
    /\ UNCHANGED memberVars
    /\ UNCHANGED << loopEntered, hookFailed, point, requestedRate, expected >>
    /\ UNCHANGED loopVars

\* variant: the time slept is taken out of the accumulator
loopSleepConsumes ==
    /\ pc = "sleep"
    /\ calls' = IF canSleep(accumulatedTime, mMaximumSleepSkew, mUpdateFrequency)
                THEN Called("sleep") ELSE calls
    /\ accumulatedTime' =
          IF canSleep(accumulatedTime, mMaximumSleepSkew, mUpdateFrequency)
          THEN accumulatedTime - mMaximumSleepSkew ELSE accumulatedTime
    /\ frames' = frames + 1
    /\ pc' = "loopCond"
    /\ UNCHANGED << mIsGameRunning, mIsRunningSlowly, clock, userQuit,
                    lastUpdate, lastDraw, presentTarget, loopResult, result >>
    /\ UNCHANGED memberVars
    /\ UNCHANGED << simulationTime, systemTime, frameTime, numUpdates,
                    interpolation, rawFrameTime, totalFrameTime, totalClamped,
                    clampTriggered, clockWentBack >>
    /\ UNCHANGED << loopEntered, hookFailed, point, requestedRate, expected >>

\* if ( accumulatedTime + mMaximumSleepSkew < mUpdateFrequency ) App::sleep
loopSleep ==
    /\ pc = "sleep"
    /\ calls' = IF canSleep(accumulatedTime, mMaximumSleepSkew, mUpdateFrequency)
                THEN Called("sleep") ELSE calls
    /\ frames' = frames + 1
    /\ pc' = "loopCond"
    /\ UNCHANGED << mIsGameRunning, mIsRunningSlowly, clock, userQuit,
                    lastUpdate, lastDraw, presentTarget, loopResult, result >>
    /\ UNCHANGED memberVars
    /\ UNCHANGED << loopEntered, hookFailed, point, requestedRate, expected >>
    /\ UNCHANGED loopVars

\* ---- specification ------------------------------------------------------
Next ==
    \/ \E n \in UpdateRates : setUpdateFrequency(n)
    \/ runShow
    \/ runInitializeClient
    \/ runInitialize
    \/ runLoadContent
    \/ loopEnter
    \/ loopCond
    \/ loopProcessMessages
    \/ loopPoll
    \/ loopAccumulate
    \/ loopUpdate
    \/ loopInterpolate
    \/ loopDraw
    \/ loopPresent
    \/ loopSleep
    \/ runUnloadContent

Spec == Init /\ [][Next]_vars

TypeOK ==
    /\ pc \in {"constructed", "assertFailed", "initializeClient", "initialize",
               "loadContent", "runMainGameLoop", "loopCond", "processMessages",
               "poll", "accumulate", "drain", "draw", "present", "sleep",
               "crashed", "unloadContent", "returned"}
    /\ mIsGameRunning \in BOOLEAN
    /\ mIsRunningSlowly \in BOOLEAN
    /\ mUpdateFrequency \in Nat \ {0}
    /\ frames \in 0..MaxFrames
    /\ result \in {"none", "EPROGRAM_OK", "EPROGRAM_FATAL_ERROR"}

\* ---- claims: the fixed timestep -----------------------------------------
\* the main loop has returned
LoopExited == loopResult = "EPROGRAM_OK"

\* C1 as stated: once the loop has returned after frame times that were each
\* at most 0.25s (no clamp) and sum to T, update() was called floor(T/P)
\* times and simulationTime is that count times P
C1_UpdateCountIsFloor ==
    (LoopExited /\ ~clampTriggered) =>
        /\ calls["update"] = totalFrameTime \div mUpdateFrequency
        /\ simulationTime = calls["update"] * mUpdateFrequency

\* C1 amended: the same, for frame times that are each between 0 and 0.25s
C1_UpdateCountIsFloorNonNegative ==
    (LoopExited /\ ~clampTriggered /\ ~clockWentBack) =>
        /\ calls["update"] = totalFrameTime \div mUpdateFrequency
        /\ simulationTime = calls["update"] * mUpdateFrequency

\* C1 witness: period 0.02s, three frames summing to 0.08s, 4 update() calls,
\* the last frame starting from a carried remainder
C1_Witness ==
    /\ LoopExited
    /\ ~clampTriggered /\ ~clockWentBack
    /\ mUpdateFrequency = 2
    /\ frames = 3
    /\ totalFrameTime = 8
    /\ calls["update"] = 4
    /\ rawFrameTime = 1

\* C2: the accumulate step of a frame adds at most 0.25s to accumulatedTime,
\* and exactly 0.25s when the polled sample was larger
C2_AccumulationClamped ==
    [][pc = "accumulate" =>
          /\ accumulatedTime' - accumulatedTime <= MaxFrameTime
          /\ (rawFrameTime > MaxFrameTime =>
                  accumulatedTime' - accumulatedTime = MaxFrameTime)]_vars

\* C2 witness: a sample above 0.25s has been accumulated, drain not started
C2_Witness ==
    /\ pc = "drain"
    /\ numUpdates = 0
    /\ rawFrameTime > MaxFrameTime
    /\ frameTime = MaxFrameTime

\* C3 as stated: the interpolation passed to draw() is in [0,1)
C3_InterpolationHalfOpen ==
    (calls["draw"] > 0) =>
        /\ 0 <= lastDraw.interpolation.num
        /\ lastDraw.interpolation.num < lastDraw.interpolation.den

\* C3 amended: the interpolation passed to draw() is greater than 0, and at
\* most 1 when no polled frame time was negative; it is 1 when the
\* accumulator was drained to exactly 0
C3_InterpolationPositiveAtMostOne ==
    /\ (calls["draw"] > 0) =>
          /\ lastDraw.interpolation.den > 0
          /\ lastDraw.interpolation.num > 0
          /\ (~clockWentBack =>
                 lastDraw.interpolation.num <= lastDraw.interpolation.den)
    /\ (pc = "draw") =>
          /\ interpolation.num = mUpdateFrequency - accumulatedTime
          /\ interpolation.den = mUpdateFrequency
          /\ (accumulatedTime = 0 => interpolation.num = interpolation.den)

\* C3 witness: draw() received the interpolation 1 in a frame that ran an
\* update, the clock never having gone backwards
C3_Witness ==
    /\ pc = "present"
    /\ ~clockWentBack
    /\ numUpdates > 0
    /\ lastDraw.interpolation.num = lastDraw.interpolation.den

\* C4: in a frame with more than one update() call the running slowly flag is
\* true when draw() is called
C4_SlowWhenSeveralUpdates ==
    /\ (pc = "draw" /\ numUpdates > 1) => mIsRunningSlowly
    /\ (calls["draw"] > 0 /\ lastDraw.numUpdates > 1) => lastDraw.runningSlowly

\* C4 witness: draw() was called in a frame with exactly two update() calls
C4_Witness ==
    /\ pc = "present"
    /\ lastDraw.numUpdates = 2
    /\ lastDraw.runningSlowly

\* ---- claims: run() ------------------------------------------------------
\* C5: when initializeClient() or initialize() returned failure, run() has
\* returned the fatal error status, and loadContent(), update(), draw() and
\* unloadContent() were not called and the main loop was not entered
C5_InitFailureAborts ==
    (hookFailed \in {"initializeClient", "initialize"}) =>
        /\ pc = "returned"
        /\ result = "EPROGRAM_FATAL_ERROR"
        /\ calls["loadContent"] = 0
        /\ calls["update"] = 0
        /\ calls["draw"] = 0
        /\ calls["unloadContent"] = 0
        /\ ~loopEntered

\* C5 witness: initialize() failed after initializeClient() succeeded
C5_Witness ==
    /\ hookFailed = "initialize"
    /\ calls["initializeClient"] = 1
    /\ pc = "returned"

\* C6: when loadContent() returned failure, run() has returned the fatal
\* error status without entering the main loop: no update(), draw() or
\* present(), and the running flag was never set
C6_LoadFailureAborts ==
    (hookFailed = "loadContent") =>
        /\ pc = "returned"
        /\ result = "EPROGRAM_FATAL_ERROR"
        /\ calls["initializeClient"] = 1
        /\ calls["initialize"] = 1
        /\ calls["update"] = 0
        /\ calls["draw"] = 0
        /\ calls["present"] = 0
        /\ ~loopEntered
        /\ ~mIsGameRunning

\* C6 witness: loadContent() failed and run() returned
C6_Witness ==
    /\ hookFailed = "loadContent"
    /\ calls["loadContent"] = 1
    /\ pc = "returned"

\* C7: unloadContent() is called at most once and only after the main loop
\* has returned; when run() has returned it was called exactly once if the
\* main loop was entered, with the success status as result, and not at all
\* otherwise
C7_UnloadIffLoopEntered ==
    /\ calls["unloadContent"] <= 1
    /\ (calls["unloadContent"] = 1) => (loopEntered /\ LoopExited)
    /\ (pc = "returned" /\ loopEntered) =>
          (calls["unloadContent"] = 1 /\ result = "EPROGRAM_OK")
    /\ (pc = "returned" /\ ~loopEntered) =>
          (calls["unloadContent"] = 0 /\ result = "EPROGRAM_FATAL_ERROR")

\* C7 witness: run() returned after a main loop of two frames
C7_Witness ==
    /\ pc = "returned"
    /\ loopEntered
    /\ frames = 2
    /\ calls["unloadContent"] = 1

\* C8: the k-th update() call (from 0) receives simulationTime = k * period
\* and deltaTime = period, simulationTime is the number of update() calls
\* times the period, and draw() receives a multiple of the period
C8_SimulationTimeMultipleOfPeriod ==
    /\ simulationTime = calls["update"] * mUpdateFrequency
    /\ (calls["update"] > 0) =>
          /\ lastUpdate.simulationTime =
                 (calls["update"] - 1) * mUpdateFrequency
          /\ lastUpdate.deltaTime = mUpdateFrequency
    /\ (calls["draw"] > 0) =>
          lastDraw.simulationTime % mUpdateFrequency = 0

\* C8 witness: update() calls in two frames of different length, then a draw()
C8_Witness ==
    /\ pc = "present"
    /\ frames = 1
    /\ numUpdates > 0
    /\ calls["update"] > numUpdates
    /\ rawFrameTime # totalFrameTime - rawFrameTime
    /\ lastDraw.simulationTime = calls["update"] * mUpdateFrequency

\* ---- claims: collaborators and loop state -------------------------------
\* C9: present() is issued on the renderer passed to the constructor, never
\* on a null reference
C9_PresentOnConstructedRenderer ==
    /\ (pc = "present") =>
          (mpMainWindow = pMainWindow /\ mpRenderer = pRenderer
             /\ mpRenderer # NULL)
    /\ (calls["present"] > 0) => presentTarget = pRenderer

\* C10: the running flag is false before the main loop is entered, true when
\* an iteration starts, and false once the loop has returned, which it does
\* with the success status
C10_RunningFlagFollowsLoop ==
    /\ ~loopEntered => ~mIsGameRunning
    /\ (pc = "processMessages") => mIsGameRunning
    /\ (pc \in {"unloadContent", "returned"} /\ loopEntered) =>
          (loopResult = "EPROGRAM_OK" /\ ~mIsGameRunning)

\* ---- claims: cancellation -----------------------------------------------
\* the loop runs under a scheduler that never stops the thread of control
FairSpec == Spec /\ WF_vars(Next)

\* the window reports quit or the running flag was cleared, inside the loop
CancelRequested ==
    /\ loopEntered
    /\ ~LoopExited
    /\ (userQuit \/ ~mIsGameRunning)

\* C11: cancellation is checked once per iteration, at the loop condition; a
\* request never survives a loop condition, so at most the rest of the frame
\* it was raised in runs, and the loop does exit after a request
C11_CancelLatencyOneFrame ==
    /\ [][(pc = "loopCond" /\ (userQuit \/ ~mIsGameRunning))
             => pc' = "unloadContent"]_vars
    /\ [][CancelRequested => (CancelRequested' \/ LoopExited')]_vars
    /\ [](pc = "processMessages" => ~CancelRequested)
    /\ (CancelRequested ~> LoopExited)

\* ---- Point (include/point.h) --------------------------------------------
\* const int PR[3], PC[3], PD[3]: slot of the row, column and depth
\* coordinate for each orientation axis
PR == [axis \in 0..2 |-> <<1, 2, 0>>[axis + 1]]
PC == [axis \in 0..2 |-> <<2, 0, 1>>[axis + 1]]
PD == [axis \in 0..2 |-> <<0, 1, 2>>[axis + 1]]

\* orientation axes and coordinates a caller passes (int, 32 bits)
PointAxes == -1..3
PointValues == {(-2147483647 - 1), -1, 0, 7, 2147483647}

\* a component of v: an int that was written, or one never initialised
Written(x) == [set |-> TRUE, val |-> x]
Indeterminate == [set |-> FALSE, val |-> 0]

\* all game client variables, which the Point operations leave alone
gameVars == << pc, pMainWindow, pRenderer, mpMainWindow, mpRenderer,
               mIsGameRunning, mIsRunningSlowly, mUpdateFrequency,
               mMaximumSleepSkew, simulationTime, accumulatedTime, systemTime,
               frameTime, numUpdates, interpolation, clock, userQuit, calls,
               lastUpdate, lastDraw, presentTarget, rawFrameTime,
               totalFrameTime, totalClamped, clampTriggered, clockWentBack,
               frames, loopResult, loopEntered, hookFailed, result,
               requestedRate, expected >>

\* variant: row and column are stored in each other's slot
PointAxisSwapped(axis, x_, y_, z_) ==
    LET v0 == [i \in 0..2 |-> Indeterminate]
        v1 == [v0 EXCEPT ![PC[axis]] = Written(x_)]
        v2 == [v1 EXCEPT ![PR[axis]] = Written(y_)]
    IN  [v2 EXCEPT ![PD[axis]] = Written(z_)]

\* Point( int axis, int x_, int y_, int z_ ): no member initialiser, then the
\* three assignments v[PR[axis]] = x_; v[PC[axis]] = y_; v[PD[axis]] = z_
PointAxis(axis, x_, y_, z_) ==
    LET v0 == [i \in 0..2 |-> Indeterminate]
        v1 == [v0 EXCEPT ![PR[axis]] = Written(x_)]
        v2 == [v1 EXCEPT ![PC[axis]] = Written(y_)]
    IN  [v2 EXCEPT ![PD[axis]] = Written(z_)]

\* int operator[] ( int index ) const, for an index the assertion accepts
PointIndex(pt, index) == pt.v[index]

\* Point(): x(0), y(0), z(0)
pointDefault ==
    /\ point.state # "assertFailed"
    /\ point' = [state |-> "default", axis |-> 0, a |-> 0, b |-> 0, c |-> 0,
                 v |-> [i \in 0..2 |-> Written(0)]]
    /\ UNCHANGED gameVars

\* Point( int x_, int y_, int z_ ): x(x_), y(y_), z(z_)
pointXYZ(x_, y_, z_) ==
    /\ point.state # "assertFailed"
    /\ point' = [state |-> "xyz", axis |-> 0, a |-> x_, b |-> y_, c |-> z_,
                 v |-> [i \in 0..2 |->
                           Written(IF i = 0 THEN x_ ELSE IF i = 1 THEN y_ ELSE z_)]]
    /\ UNCHANGED gameVars

\* Point( int axis, ... ): assert( axis >= 0 && axis < 3 ) stops the program
pointAxis(axis, x_, y_, z_) ==
    /\ point.state # "assertFailed"
    /\ IF axis >= 0 /\ axis < 3
       THEN point' = [state |-> "axis", axis |-> axis, a |-> x_, b |-> y_,
                      c |-> z_, v |-> PointAxis(axis, x_, y_, z_)]
       ELSE point' = [point EXCEPT !.state = "assertFailed"]
    /\ UNCHANGED gameVars

PointNext ==
    \/ pointDefault
    \/ \E x_, y_, z_ \in PointValues : pointXYZ(x_, y_, z_)
    \/ \E axis \in PointAxes : \E x_, y_, z_ \in PointValues :
          pointAxis(axis, x_, y_, z_)

PointSpec == Init /\ [][PointNext]_vars

\* C12: a Point built by Point(axis, a, b, c) with axis in {0,1,2} has all
\* three components written, and p[PR[axis]] = a, p[PC[axis]] = b and
\* p[PD[axis]] = c, with PR = {1,2,0}, PC = {2,0,1}, PD = {0,1,2}
C12_AxisConstructorReadsBack ==
    /\ (point.state = "axis") =>
          /\ point.axis \in {0, 1, 2}
          /\ \A i \in 0..2 : PointIndex(point, i).set
          /\ PointIndex(point, PR[point.axis]) = Written(point.a)
          /\ PointIndex(point, PC[point.axis]) = Written(point.b)
          /\ PointIndex(point, PD[point.axis]) = Written(point.c)
    /\ << PR[0], PR[1], PR[2] >> = << 1, 2, 0 >>
    /\ << PC[0], PC[1], PC[2] >> = << 2, 0, 1 >>
    /\ << PD[0], PD[1], PD[2] >> = << 0, 1, 2 >>

\* C12 witness: a Point built around axis 1 from three different values, one
\* of them the smallest int
C12_Witness ==
    /\ point.state = "axis"
    /\ point.axis = 1
    /\ point.a = (-2147483647 - 1)
    /\ point.b = 7
    /\ point.c = 2147483647
    /\ point.v = [i \in 0..2 |->
                     Written(IF i = 0 THEN 7 ELSE IF i = 1 THEN 2147483647
                             ELSE (-2147483647 - 1))]

\* ---- claims: the update period ------------------------------------------
\* C13: after setUpdateFrequency(n) with n > 0 the update period is 1/n
\* seconds, and every pass of the drain loop uses that period as its
\* threshold and as its step; with n <= 0 the call stops at the assertion and
\* the period is the one from before the call
C13_UpdateFrequencySetsPeriod ==
    /\ []((requestedRate.called /\ requestedRate.n > 0) =>
              mUpdateFrequency * requestedRate.n = TicksPerSecond)
    /\ [](~requestedRate.called => mUpdateFrequency = DefaultUpdateFrequency)
    /\ []((requestedRate.called /\ requestedRate.n <= 0) <=> pc = "assertFailed")
    /\ [][(pc' = "assertFailed") => mUpdateFrequency' = mUpdateFrequency]_vars
    /\ [][(calls'["update"] # calls["update"]) =>
             /\ accumulatedTime >= mUpdateFrequency
             /\ accumulatedTime' = accumulatedTime - mUpdateFrequency
             /\ simulationTime' = simulationTime + mUpdateFrequency
             /\ lastUpdate'.deltaTime = mUpdateFrequency]_vars
    /\ [][(pc = "drain" /\ pc' = "draw") =>
             accumulatedTime < mUpdateFrequency]_vars

\* C13 witness: setUpdateFrequency(20) was called and the drain loop has made
\* two steps of 0.05s in one frame
C13_Witness ==
    /\ requestedRate = [called |-> TRUE, n |-> 20]
    /\ mUpdateFrequency = 5
    /\ pc = "drain"
    /\ numUpdates = 2
    /\ lastUpdate.deltaTime = 5
    /\ simulationTime = 10

\* ---- claims: simulation and rendering -----------------------------------
\* C14: the update() calls depend on the update period and on the polled
\* frame times only.  The draw, present and sleep steps leave simulationTime,
\* accumulatedTime, systemTime and the period unchanged; at the end of the
\* drain loop and until the next poll the simulation is in the state that
\* the frame times alone call for, whether or not the frame slept; and the
\* k-th update() call has the arguments (k * period, period)
C14_SimulationIndependentOfRendering ==
    /\ [][(pc \in {"draw", "present", "sleep"}) =>
             UNCHANGED << simulationTime, accumulatedTime, systemTime,
                          mUpdateFrequency, numUpdates >>]_vars
    /\ []((loopEntered /\ pc \notin {"accumulate", "drain"}) =>
             /\ simulationTime = expected.simulationTime
             /\ accumulatedTime = expected.accumulatedTime
             /\ calls["update"] = expected.updates)
    /\ []((pc = "drain") => calls["update"] <= expected.updates)
    /\ []((calls["update"] > 0) =>
             lastUpdate = [simulationTime |->
                               (calls["update"] - 1) * mUpdateFrequency,
                           deltaTime |-> mUpdateFrequency])

\* C14 witness: a second frame has been polled after a frame that slept and
\* after one that did not, with update() calls made in both cases
C14_Witness ==
    /\ pc = "loopCond"
    /\ frames = 2
    /\ calls["sleep"] = 1
    /\ calls["update"] = expected.updates
    /\ numUpdates > 0
    /\ calls["update"] > numUpdates

\* C15: in every iteration processMessages() comes first, then the clock is
\* polled, then the update() calls of the drain loop, then one draw(), then
\* one present() as the very next step; update() is called in the drain loop
\* only, so none falls between a draw() and its present()
C15_FrameStepsInOrder ==
    /\ []((pc \in {"poll", "accumulate", "drain", "draw"}) =>
             /\ calls["processMessages"] = frames + 1
             /\ calls["draw"] = frames
             /\ calls["present"] = frames)
    /\ []((pc = "present") =>
             /\ calls["processMessages"] = frames + 1
             /\ calls["draw"] = frames + 1
             /\ calls["present"] = frames)
    /\ []((pc \in {"sleep", "crashed"}) =>
             /\ calls["processMessages"] = frames + 1
             /\ calls["draw"] = frames + 1
             /\ calls["present"] = frames + 1)
    /\ []((pc \in {"loopCond", "processMessages", "unloadContent", "returned"}) =>
             /\ calls["processMessages"] = frames
             /\ calls["draw"] = frames
             /\ calls["present"] = frames)
    /\ [][(calls'["processMessages"] # calls["processMessages"]) =>
             (pc = "processMessages" /\ pc' = "poll")]_vars
    /\ [][(pc = "poll") => (pc' = "accumulate" /\ calls' = calls)]_vars
    /\ [][(calls'["update"] # calls["update"]) =>
             (pc = "drain" /\ pc' = "drain" /\ numUpdates' = numUpdates + 1)]_vars
    /\ [][(calls'["draw"] # calls["draw"]) =>
             (pc = "draw" /\ pc' = "present")]_vars
    /\ [][(pc = "present") => calls' = Called("present")]_vars

\* C15 witness: the second frame has made two update() calls, its draw() and
\* its present()
C15_Witness ==
    /\ pc = "sleep"
    /\ frames = 1
    /\ numUpdates = 2
    /\ calls["processMessages"] = 2
    /\ calls["draw"] = 2
    /\ calls["present"] = 2

\* ---- claims: the accumulator --------------------------------------------
\* ceil(0.25s / period): the most update() calls one frame can make
MaxUpdatesPerFrame(period) == (MaxFrameTime + period - 1) \div period

\* C16: the drain loop ends in every frame: a frame makes at most
\* ceil(0.25s / period) update() calls however far the clock has moved, and
\* each pass brings the accumulator nearer to the period
C16_DrainBounded ==
    /\ [](numUpdates <= MaxUpdatesPerFrame(mUpdateFrequency))
    /\ [](lastDraw.numUpdates <= MaxUpdatesPerFrame(mUpdateFrequency))
    /\ []((pc = "drain") =>
             accumulatedTime + numUpdates * mUpdateFrequency
                 < MaxFrameTime + mUpdateFrequency)
    /\ [][(pc = "drain" /\ pc' = "drain") =>
             (accumulatedTime' < accumulatedTime /\ mUpdateFrequency > 0)]_vars

\* C16 witness: a stall of 0.30s at 100 updates per second was drained in
\* exactly ceil(0.25 / 0.01) = 25 steps
C16_Witness ==
    /\ pc = "draw"
    /\ rawFrameTime > MaxFrameTime
    /\ mUpdateFrequency = 1
    /\ numUpdates = 25
    /\ numUpdates = MaxUpdatesPerFrame(mUpdateFrequency)

\* C17: as long as the polled clock has not gone backwards, the accumulator
\* is at least 0 and below the update period whenever draw() is called and
\* whenever the outer loop condition is evaluated
C17_AccumulatorInRange ==
    (~clockWentBack /\ pc \in {"draw", "loopCond"}) =>
        /\ 0 <= accumulatedTime
        /\ accumulatedTime < mUpdateFrequency

\* C17 witness: the loop condition is evaluated after two frames with a
\* remainder in the accumulator
C17_Witness ==
    /\ pc = "loopCond"
    /\ ~clockWentBack
    /\ frames = 2
    /\ accumulatedTime > 0
    /\ calls["update"] > 0

\* C18: at the end of every frame, and at every step of the loop except
\* between the poll and the accumulation of its sample, simulationTime +
\* accumulatedTime is the sum of the clamped frame times polled so far
C18_TimeConserved ==
    /\ (loopEntered /\ pc # "accumulate") =>
          simulationTime + accumulatedTime = totalClamped
    /\ (pc = "accumulate") =>
          simulationTime + accumulatedTime + frameTime = totalClamped

\* C18 witness: end of the third frame, one sample of which was clamped and
\* one of which left a remainder for the next frame
C18_Witness ==
    /\ pc = "loopCond"
    /\ frames = 3
    /\ clampTriggered
    /\ totalClamped < totalFrameTime
    /\ accumulatedTime > 0
    /\ simulationTime > MaxFrameTime

\* ---- claims: the running slowly flag ------------------------------------
\* C19: the running slowly flag changes only in a pass of the drain loop,
\* which sets it to (this is not the first update() of the frame); a frame
\* without update() therefore shows draw() the value of an earlier frame, and
\* a frame with exactly one update() shows it false
C19_SlowFlagWrittenInDrainOnly ==
    /\ [][(mIsRunningSlowly' # mIsRunningSlowly) =>
             (pc = "drain" /\ calls'["update"] = calls["update"] + 1)]_vars
    /\ [][(calls'["update"] # calls["update"]) =>
             mIsRunningSlowly' = (numUpdates > 0)]_vars
    /\ [][(calls'["draw"] # calls["draw"] /\ numUpdates = 0) =>
             lastDraw'.runningSlowly = lastDraw.runningSlowly]_vars
    /\ []((calls["draw"] > 0 /\ lastDraw.numUpdates = 1) =>
             ~lastDraw.runningSlowly)

\* C19 witness: draw() saw the flag true in a frame that made no update()
C19_Witness ==
    /\ pc = "present"
    /\ lastDraw.numUpdates = 0
    /\ lastDraw.runningSlowly
    /\ numUpdates = 0
    /\ mIsRunningSlowly

\* ---- claims: startup order ----------------------------------------------
\* C20: run() calls show(), initializeClient(), initialize(), loadContent()
\* in this order, each at most once, and stops at the first failure: after a
\* failed initializeClient() neither initialize() nor loadContent() is
\* called; show() has been called whenever run() has started
C20_StartupOrder ==
    /\ \A h \in {"show", "initializeClient", "initialize", "loadContent"} :
          calls[h] <= 1
    /\ calls["initializeClient"] <= calls["show"]
    /\ calls["initialize"] <= calls["initializeClient"]
    /\ calls["loadContent"] <= calls["initialize"]
    /\ (pc \notin {"constructed", "assertFailed"}) => calls["show"] = 1
    /\ (hookFailed = "initializeClient") =>
          (calls["initialize"] = 0 /\ calls["loadContent"] = 0)
    /\ (hookFailed = "initialize") => calls["loadContent"] = 0
    /\ (calls["initialize"] = 1) => hookFailed # "initializeClient"
    /\ (calls["loadContent"] = 1) => hookFailed \in {"none", "loadContent"}
    /\ loopEntered => (calls["loadContent"] = 1 /\ hookFailed = "none")

\* C20 witness: initializeClient() failed right after show()
C20_Witness ==
    /\ pc = "returned"
    /\ hookFailed = "initializeClient"
    /\ calls["show"] = 1
    /\ calls["initializeClient"] = 1
    /\ calls["initialize"] = 0

====
